---- MODULE Spec2Model ----
(***************************************************************************)
(* Model of ocr_legal.py: the text normaliser clean_text, the per-document *)
(* pipeline ocr_documento_legal, the result writer save_results, the batch *)
(* loop process_batch and the command-line entry point main.               *)
(***************************************************************************)
EXTENDS Naturals, Integers, Sequences, FiniteSets, TLC

\* ------------------------------------------------------------------ bounds
MaxLen == 7        \* longest string fed to clean_text in SpecText
MaxFiles == 2      \* most files in the scanned directory

\* ------------------------------------------------------- text (clean_text)
SP == " "
NL == "\n"
TAB == "\t"
Alphabet == {"a", SP, TAB, NL}
\* characters removed by str.strip() with no argument
Whitespace == {SP, TAB, NL}

RECURSIVE CollapseSpaces(_)
\* re.sub(r' +', ' ', text)
CollapseSpaces(t) ==
    IF Len(t) < 2 THEN t
    ELSE IF t[1] = SP /\ t[2] = SP THEN CollapseSpaces(Tail(t))
    ELSE <<t[1]>> \o CollapseSpaces(Tail(t))

RECURSIVE RunLen(_, _)
\* length of the run of character c at the head of t
RunLen(t, c) ==
    IF t = <<>> \/ t[1] # c THEN 0 ELSE 1 + RunLen(Tail(t), c)

Drop(t, n) == SubSeq(t, n + 1, Len(t))

RECURSIVE CollapseNewlines(_)
\* re.sub(r'\n{3,}', '\n\n', text)
CollapseNewlines(t) ==
    IF t = <<>> THEN <<>>
    ELSE LET n == RunLen(t, NL) IN
         IF n = 0 THEN <<t[1]>> \o CollapseNewlines(Tail(t))
         ELSE IF n >= 3 THEN <<NL, NL>> \o CollapseNewlines(Drop(t, n))
         ELSE SubSeq(t, 1, n) \o CollapseNewlines(Drop(t, n))

RECURSIVE LineLen(_)
\* number of characters before the first newline of t
LineLen(t) ==
    IF t = <<>> \/ t[1] = NL THEN 0 ELSE 1 + LineLen(Tail(t))

RECURSIVE Split(_)
\* text.split('\n')
Split(t) ==
    LET n == LineLen(t) IN
    IF n = Len(t) THEN <<t>>
    ELSE <<SubSeq(t, 1, n)>> \o Split(Drop(t, n + 1))

RECURSIVE LStrip(_)
LStrip(t) ==
    IF t # <<>> /\ t[1] \in Whitespace THEN LStrip(Tail(t)) ELSE t

RECURSIVE RStrip(_)
RStrip(t) ==
    IF t # <<>> /\ t[Len(t)] \in Whitespace
    THEN RStrip(SubSeq(t, 1, Len(t) - 1)) ELSE t

\* str.strip()
Strip(t) == RStrip(LStrip(t))

\* StripLine with lstrip() in place of strip()
LStripOnly(line) == LStrip(line)

\* line.strip() of the list comprehension
StripLine(line) == Strip(line)

RECURSIVE Join(_)
\* '\n'.join(lines)
Join(lines) ==
    IF Len(lines) = 0 THEN <<>>
    ELSE IF Len(lines) = 1 THEN lines[1]
    ELSE lines[1] \o <<NL>> \o Join(Tail(lines))

StripLines(lines) == [k \in 1..Len(lines) |-> StripLine(lines[k])]

clean_text(t) ==
    Strip(Join(StripLines(Split(CollapseNewlines(CollapseSpaces(t))))))


\* ------------------------------------------------------------ input domain
Bases == {"a", "b"}
\* extensions of the files that may lie in the scanned directory
DirExts == {"png", "jpg", "bmp", "pdf"}
Files == [base : Bases, ext : DirExts]
\* results the recognition engine may return
RawTexts == {<<"a", SP, SP, "a">>, <<NL, "a", TAB>>}
NoFile == [base |-> "", ext |-> ""]
NoImage == [src |-> NoFile, mode |-> "none", contrast |-> 0, sharpened |-> FALSE]
NoText == <<"?">>
Absent == <<"absent">>

\* extensions = ['*.png', '*.jpg', '*.jpeg', '*.tiff', '*.bmp']
extensions == <<"png", "jpg", "jpeg", "tiff", "bmp">>

VARIABLES
    target,             \* sys.argv[1]: "none", "missing", "dir" or "file"
    preprocess,         \* '--no-prep' not in sys.argv
    save_preprocessed,  \* '--save-prep' in sys.argv
    path,               \* the file named on the command line (single mode)
    dirFiles,           \* the files of the directory named on the command line
    pc,                 \* position in the program
    images,             \* process_batch: the discovered files
    i,                  \* process_batch: loop index
    img,                \* ocr_documento_legal: decoded image
    img_processed,      \* ocr_documento_legal: image handed to the engine
    rawText,            \* ocr_documento_legal: engine result
    text,               \* ocr_documento_legal: normalised text
    exc,                \* exception in flight
    exitCode,           \* process exit status, -1 while running
    outFiles,           \* contents of output/, by file name
    notice,             \* advisory and summary messages printed
    outcome,            \* per-document result lines printed by the batch loop
    attempts,           \* files whose pipeline was started, in order
    engineCalls,        \* calls of pytesseract.image_to_string
    failedAt,           \* raised failures: document index and stage
    handed,             \* calls of save_results: document index, file, text
    s, r1, r2, tpc      \* SpecText: input, clean_text(s), clean_text(r1)

vars == <<target, preprocess, save_preprocessed, path, dirFiles, pc, images, i,
          img, img_processed, rawText, text, exc, exitCode, outFiles, notice,
          outcome, attempts, engineCalls, failedAt, handed, s, r1, r2, tpc>>

argvVars == <<target, preprocess, save_preprocessed, path, dirFiles>>
textVars == <<s, r1, r2, tpc>>
pipeVars == <<img, img_processed, rawText, text>>
histVars == <<attempts, engineCalls, failedAt, handed>>

\* ------------------------------------------------------------------ helpers
Batch == target = "dir"
CurIdx == IF Batch THEN i ELSE 1
CurFile == IF Batch THEN images[i] ELSE path

\* Path(image_path).stem
Stem(f) == f.base
\* Path(image_path).name
Name(f) == <<f.base, f.ext>>

ExtIndex(e) == CHOOSE k \in 1..Len(extensions) : extensions[k] = e
Matching(dir) == {f \in dir : \E k \in 1..Len(extensions) : extensions[k] = f.ext}

\* the lists the five globs can produce: extension groups in the order of
\* `extensions`, files of one group in the order the file system yields them
Listings(dir) ==
    LET M == Matching(dir)
        n == Cardinality(M)
    IN {q \in [1..n -> M] :
          /\ \A j, k \in 1..n : j # k => q[j] # q[k]
          /\ \A j, k \in 1..n : j < k => ExtIndex(q[j].ext) <= ExtIndex(q[k].ext)}

\* Image.open(image_path)
Decoded(f) == [src |-> f, mode |-> "RGB", contrast |-> 1, sharpened |-> FALSE]

\* convert('L'), Contrast.enhance(2.0), filter(SHARPEN)
preprocess_image(im) ==
    [src |-> im.src, mode |-> "L", contrast |-> 2 * im.contrast, sharpened |-> TRUE]

TxtFile(f) == <<Stem(f), "txt">>
MdFile(f) == <<Stem(f), "md">>
PrepFile(f) == <<Stem(f), "_preprocessed.png">>
\* what img_processed.save writes
PrepContent(im) == <<"png", Name(im.src), im.mode>>
OutNames == {<<b, k>> : b \in Bases, k \in {"txt", "md", "_preprocessed.png"}}

\* md_content: the template's variable parts (the timestamp is left out)
MdContent(f, t) == <<"md", Stem(f), Name(f), t>>

\* an exception leaves the pipeline or the writer: caught by the batch loop's
\* except clause, uncaught in single-file mode (traceback, exit status 1)
Raise(stage) ==
    /\ failedAt' = Append(failedAt, [idx |-> CurIdx, stage |-> stage])
    /\ exc' = stage
    /\ IF Batch
       THEN pc' = "except" /\ exitCode' = exitCode
       ELSE pc' = "exit" /\ exitCode' = 1


\* a failed write_text: open() failed and the file is as it was, or the file
\* was opened (created or truncated) and the write failed
FailedWrite(name) == {outFiles, [outFiles EXCEPT ![name] = <<>>]}

\* save_preprocessed as ocr_documento_legal receives it: process_batch does
\* not pass it on, so the default False applies there
SavePrep == ~Batch /\ save_preprocessed

\* --------------------------------------------------------------------- Init
InitText ==
    /\ s = <<>> /\ r1 = NoText /\ r2 = NoText /\ tpc = "off"

InitRun ==
    /\ img = NoImage /\ img_processed = NoImage
    /\ rawText = NoText /\ text = NoText
    /\ images = <<>> /\ i = 0
    /\ exc = "none" /\ exitCode = -1
    /\ outFiles = [n \in OutNames |-> Absent]
    /\ notice = "none" /\ outcome = <<>>
    /\ attempts = <<>> /\ engineCalls = <<>> /\ failedAt = <<>> /\ handed = <<>>

Init ==
    /\ target \in {"none", "missing", "dir", "file"}
    /\ preprocess \in BOOLEAN
    /\ save_preprocessed \in BOOLEAN
    /\ path \in IF target = "file" THEN Files ELSE {NoFile}
    /\ dirFiles \in IF target = "dir"
                    THEN {d \in SUBSET Files : Cardinality(d) <= MaxFiles}
                    ELSE {{}}
    /\ pc = "start"
    /\ InitRun
    /\ InitText

\* --------------------------------------------------------------------- main
\* len(sys.argv) < 2: usage, sys.exit(1)
MainUsage ==
    /\ pc = "start" /\ target = "none"
    /\ notice' = "usage" /\ exitCode' = 1 /\ pc' = "exit"
    /\ UNCHANGED <<argvVars, textVars, pipeVars, histVars, images, i, exc,
                   outFiles, outcome>>

\* not path_obj.exists(): sys.exit(1)
MainNotExists ==
    /\ pc = "start" /\ target = "missing"
    /\ notice' = "not_exists" /\ exitCode' = 1 /\ pc' = "exit"
    /\ UNCHANGED <<argvVars, textVars, pipeVars, histVars, images, i, exc,
                   outFiles, outcome>>

\* path_obj.is_dir(): process_batch(str(path_obj), preprocess=preprocess)
MainDir ==
    /\ pc = "start" /\ target = "dir"
    /\ pc' = "glob"
    /\ UNCHANGED <<argvVars, textVars, pipeVars, histVars, images, i, exc,
                   exitCode, outFiles, notice, outcome>>

\* else: ocr_documento_legal(path, preprocess, save_preprocessed)
MainFile ==
    /\ pc = "start" /\ target = "file"
    /\ pc' = "open"
    /\ attempts' = Append(attempts, path)
    /\ UNCHANGED <<argvVars, textVars, pipeVars, images, i, exc, exitCode,
                   outFiles, notice, outcome, engineCalls, failedAt, handed>>

\* ------------------------------------------------------------ process_batch
\* BatchEmpty without the early return: control falls into the loop
BatchEmptyFallThrough ==
    /\ pc = "glob" /\ Matching(dirFiles) = {}
    /\ images' = <<>>
    /\ i' = 0 /\ pc' = "loop"
    /\ UNCHANGED <<argvVars, textVars, pipeVars, histVars, exc, exitCode,
                   outFiles, notice, outcome>>

\* "if not images: print(...); return", followed by main's return
BatchEmpty ==
    /\ pc = "glob" /\ Matching(dirFiles) = {}
    /\ images' = <<>>
    /\ notice' = "no_images" /\ exitCode' = 0 /\ pc' = "exit"
    /\ UNCHANGED <<argvVars, textVars, pipeVars, histVars, i, exc, outFiles,
                   outcome>>

\* the five globs found something: enter the loop
BatchStart ==
    /\ pc = "glob" /\ Matching(dirFiles) # {}
    /\ \E q \in Listings(dirFiles) : images' = q
    /\ i' = 0 /\ pc' = "loop"
    /\ UNCHANGED <<argvVars, textVars, pipeVars, histVars, exc, exitCode,
                   outFiles, notice, outcome>>

\* next iteration of "for i, img_path in enumerate(images, 1)"
LoopNext ==
    /\ pc = "loop" /\ i < Len(images)
    /\ i' = i + 1
    /\ attempts' = Append(attempts, images[i + 1])
    /\ img' = NoImage /\ img_processed' = NoImage
    /\ rawText' = NoText /\ text' = NoText
    /\ pc' = "open"
    /\ UNCHANGED <<argvVars, textVars, images, exc, exitCode, outFiles, notice,
                   outcome, engineCalls, failedAt, handed>>

\* the loop is exhausted: avg_time = total_elapsed / len(images), summary
LoopEnd ==
    /\ pc = "loop" /\ i = Len(images)
    /\ IF Len(images) = 0
       THEN /\ exc' = "ZeroDivisionError" /\ exitCode' = 1 /\ notice' = notice
       ELSE /\ exc' = exc /\ exitCode' = 0 /\ notice' = "summary"
    /\ pc' = "exit"
    /\ UNCHANGED <<argvVars, textVars, pipeVars, histVars, images, i, outFiles,
                   outcome>>

\* Except with break in place of continue
ExceptBreak ==
    /\ pc = "except"
    /\ outcome' = Append(outcome, [file |-> images[i], status |-> "error"])
    /\ exc' = "none"
    /\ i' = Len(images)
    /\ pc' = "loop"
    /\ UNCHANGED <<argvVars, textVars, pipeVars, histVars, images, exitCode,
                   outFiles, notice>>

\* except Exception as e: print(f"Error: {e}"); continue
Except ==
    /\ pc = "except"
    /\ outcome' = Append(outcome, [file |-> images[i], status |-> "error"])
    /\ exc' = "none"
    /\ pc' = "loop"
    /\ UNCHANGED <<argvVars, textVars, pipeVars, histVars, images, i, exitCode,
                   outFiles, notice>>


\* ------------------------------------------------------ ocr_documento_legal
\* img = Image.open(image_path); Path(image_path).stat()
OpenOk ==
    /\ pc = "open"
    /\ img' = Decoded(CurFile)
    /\ pc' = "prep"
    /\ UNCHANGED <<argvVars, textVars, histVars, images, i, img_processed,
                   rawText, text, exc, exitCode, outFiles, notice, outcome>>

OpenFail ==
    /\ pc = "open"
    /\ Raise("decode")
    /\ UNCHANGED <<argvVars, textVars, pipeVars, images, i, outFiles, notice,
                   outcome, attempts, engineCalls, handed>>

\* if preprocess: img_processed = preprocess_image(img)
PreprocessOk ==
    /\ pc = "prep" /\ preprocess
    /\ img_processed' = preprocess_image(img)
    /\ pc' = IF SavePrep THEN "saveprep" ELSE "recog"
    /\ UNCHANGED <<argvVars, textVars, histVars, images, i, img, rawText, text,
                   exc, exitCode, outFiles, notice, outcome>>

\* the image data is read lazily: a damaged file fails in convert('L')
PreprocessFail ==
    /\ pc = "prep" /\ preprocess
    /\ Raise("preprocess")
    /\ UNCHANGED <<argvVars, textVars, pipeVars, images, i, outFiles, notice,
                   outcome, attempts, engineCalls, handed>>

\* else: img_processed = img
PreprocessSkip ==
    /\ pc = "prep" /\ ~preprocess
    /\ img_processed' = img
    /\ pc' = "recog"
    /\ UNCHANGED <<argvVars, textVars, histVars, images, i, img, rawText, text,
                   exc, exitCode, outFiles, notice, outcome>>

\* if save_preprocessed: output_dir.mkdir(...); img_processed.save(...)
SavePrepOk ==
    /\ pc = "saveprep"
    /\ outFiles' = [outFiles EXCEPT ![PrepFile(CurFile)] = PrepContent(img_processed)]
    /\ pc' = "recog"
    /\ UNCHANGED <<argvVars, textVars, pipeVars, histVars, images, i, exc,
                   exitCode, notice, outcome>>

\* mkdir or save raises: nothing guards the two calls
SavePrepFail ==
    /\ pc = "saveprep"
    /\ Raise("save_prep")
    /\ UNCHANGED <<argvVars, textVars, pipeVars, images, i, outFiles, notice,
                   outcome, attempts, engineCalls, handed>>

\* text = pytesseract.image_to_string(img_processed, ...)
RecognizeOk ==
    /\ pc = "recog"
    /\ \E raw \in RawTexts :
         /\ rawText' = raw
         /\ engineCalls' = Append(engineCalls,
              [idx |-> CurIdx, input |-> img_processed, result |-> raw])
    /\ pc' = "clean"
    /\ UNCHANGED <<argvVars, textVars, images, i, img, img_processed, text, exc,
                   exitCode, outFiles, notice, outcome, attempts, failedAt, handed>>

\* RecognizeFail with the engine error swallowed and some text returned
RecognizeFailSwallowed ==
    /\ pc = "recog"
    /\ engineCalls' = Append(engineCalls,
         [idx |-> CurIdx, input |-> img_processed, result |-> NoText])
    /\ failedAt' = Append(failedAt, [idx |-> CurIdx, stage |-> "engine"])
    /\ rawText' \in RawTexts
    /\ pc' = "clean"
    /\ UNCHANGED <<argvVars, textVars, images, i, img, img_processed, text, exc,
                   exitCode, outFiles, notice, outcome, attempts, handed>>

RecognizeFail ==
    /\ pc = "recog"
    /\ engineCalls' = Append(engineCalls,
         [idx |-> CurIdx, input |-> img_processed, result |-> NoText])
    /\ Raise("engine")
    /\ UNCHANGED <<argvVars, textVars, pipeVars, images, i, outFiles, notice,
                   outcome, attempts, handed>>

\* clean_text on the engine's possible results, computed once
CleanTable == [raw \in RawTexts |-> clean_text(raw)]

\* Returned without the call of clean_text
ReturnedRaw(raw) == raw

\* the text ocr_documento_legal returns for the engine result raw
Returned(raw) == CleanTable[raw]

\* CleanReturn with the caller's save_results call left out
CleanReturnNoSave ==
    /\ pc = "clean"
    /\ text' = Returned(rawText)
    /\ IF Batch
       THEN /\ outcome' = Append(outcome, [file |-> images[i], status |-> "ok"])
            /\ pc' = "loop" /\ exitCode' = exitCode
       ELSE /\ outcome' = outcome
            /\ pc' = "exit" /\ exitCode' = 0
    /\ UNCHANGED <<argvVars, textVars, histVars, images, i, img, img_processed,
                   rawText, exc, outFiles, notice>>

\* text = clean_text(text); statistics; return text; then the caller's
\* save_results(text, path) is entered
CleanReturn ==
    /\ pc = "clean"
    /\ LET cleaned == Returned(rawText) IN
         /\ text' = cleaned
         /\ handed' = Append(handed,
              [idx |-> CurIdx, file |-> CurFile, text |-> cleaned])
    /\ pc' = "mkdir"
    /\ UNCHANGED <<argvVars, textVars, images, i, img, img_processed, rawText,
                   exc, exitCode, outFiles, notice, outcome, attempts,
                   engineCalls, failedAt>>

\* ------------------------------------------------------------- save_results
\* output_dir.mkdir(exist_ok=True)
SaveMkdirOk ==
    /\ pc = "mkdir"
    /\ pc' = "txt"
    /\ UNCHANGED <<argvVars, textVars, pipeVars, histVars, images, i, exc,
                   exitCode, outFiles, notice, outcome>>

SaveMkdirFail ==
    /\ pc = "mkdir"
    /\ Raise("mkdir")
    /\ UNCHANGED <<argvVars, textVars, pipeVars, images, i, outFiles, notice,
                   outcome, attempts, engineCalls, handed>>

\* SaveTxtOk that leaves an existing file alone
SaveTxtKeepFirst ==
    /\ pc = "txt"
    /\ outFiles' = IF outFiles[TxtFile(CurFile)] = Absent
                   THEN [outFiles EXCEPT ![TxtFile(CurFile)] = text]
                   ELSE outFiles
    /\ pc' = "md"
    /\ UNCHANGED <<argvVars, textVars, pipeVars, histVars, images, i, exc,
                   exitCode, notice, outcome>>

\* txt_file.write_text(text, encoding='utf-8')
SaveTxtOk ==
    /\ pc = "txt"
    /\ outFiles' = [outFiles EXCEPT ![TxtFile(CurFile)] = text]
    /\ pc' = "md"
    /\ UNCHANGED <<argvVars, textVars, pipeVars, histVars, images, i, exc,
                   exitCode, notice, outcome>>

SaveTxtFail ==
    /\ pc = "txt"
    /\ outFiles' \in FailedWrite(TxtFile(CurFile))
    /\ Raise("write_txt")
    /\ UNCHANGED <<argvVars, textVars, pipeVars, images, i, notice, outcome,
                   attempts, engineCalls, handed>>

\* md_file.write_text(md_content, ...); back in the caller: print() in the
\* batch loop, the end of main in single-file mode
SaveMdOk ==
    /\ pc = "md"
    /\ outFiles' = [outFiles EXCEPT ![MdFile(CurFile)] = MdContent(CurFile, text)]
    /\ IF Batch
       THEN /\ outcome' = Append(outcome, [file |-> images[i], status |-> "ok"])
            /\ pc' = "loop" /\ exitCode' = exitCode
       ELSE /\ outcome' = outcome
            /\ pc' = "exit" /\ exitCode' = 0
    /\ UNCHANGED <<argvVars, textVars, pipeVars, histVars, images, i, exc, notice>>

SaveMdFail ==
    /\ pc = "md"
    /\ outFiles' \in FailedWrite(MdFile(CurFile))
    /\ Raise("write_md")
    /\ UNCHANGED <<argvVars, textVars, pipeVars, images, i, notice, outcome,
                   attempts, engineCalls, handed>>

Next ==
    \/ MainUsage \/ MainNotExists \/ MainDir \/ MainFile
    \/ BatchEmpty \/ BatchStart \/ LoopNext \/ LoopEnd \/ Except
    \/ OpenOk \/ OpenFail
    \/ PreprocessOk \/ PreprocessFail \/ PreprocessSkip
    \/ SavePrepOk \/ SavePrepFail
    \/ RecognizeOk \/ RecognizeFail \/ CleanReturn
    \/ SaveMkdirOk \/ SaveMkdirFail
    \/ SaveTxtOk \/ SaveTxtFail \/ SaveMdOk \/ SaveMdFail

Spec == Init /\ [][Next]_vars

\* the program runs to completion: every call it makes returns or raises
FairSpec == Spec /\ WF_vars(Next)

\* ------------------------------------------- clean_text on bounded strings
Strings == UNION {[1..n -> Alphabet] : n \in 0..MaxLen}

InitStrings ==
    /\ s \in Strings /\ r1 = NoText /\ r2 = NoText /\ tpc = "start"
    /\ target = "none" /\ preprocess = TRUE /\ save_preprocessed = FALSE
    /\ path = NoFile /\ dirFiles = {}
    /\ pc = "off"
    /\ InitRun

\* r1 = clean_text(s)
Normalize ==
    /\ tpc = "start"
    /\ r1' = clean_text(s)
    /\ tpc' = "once"
    /\ UNCHANGED <<argvVars, pipeVars, histVars, pc, images, i, exc, exitCode,
                   outFiles, notice, outcome, s, r2>>

\* r2 = clean_text(r1)
NormalizeAgain ==
    /\ tpc = "once"
    /\ r2' = clean_text(r1)
    /\ tpc' = "done"
    /\ UNCHANGED <<argvVars, pipeVars, histVars, pc, images, i, exc, exitCode,
                   outFiles, notice, outcome, s, r1>>

NextText == Normalize \/ NormalizeAgain

SpecText == InitStrings /\ [][NextText]_vars


\* ===================================================== properties: clean_text
Normalized == tpc \in {"once", "done"}

Trimmed(t) == t = <<>> \/ (t[1] \notin Whitespace /\ t[Len(t)] \notin Whitespace)

NoDoubleSpace(t) == \A k \in 1..(Len(t) - 1) : ~(t[k] = SP /\ t[k + 1] = SP)

\* number of characters of t[lo..hi] that satisfy being in set S
CountIn(t, lo, hi, S) == Cardinality({k \in lo..hi : t[k] \in S})

NonWs == Alphabet \ Whitespace

\* index in t of the n-th character that is not whitespace (0 when n = 0,
\* Len(t) + 1 when t has fewer than n of them)
NthNonWs(t, n) ==
    IF n = 0 THEN 0
    ELSE IF CountIn(t, 1, Len(t), NonWs) < n THEN Len(t) + 1
    ELSE CHOOSE k \in 1..Len(t) :
           t[k] \in NonWs /\ CountIn(t, 1, k, NonWs) = n

\* newlines of t between its n-th and its (n+1)-th non-whitespace character
NewlinesInGap(t, n) ==
    CountIn(t, NthNonWs(t, n) + 1, NthNonWs(t, n + 1) - 1, {NL})

\* maximal runs of three or more newlines of t that have a non-whitespace
\* character somewhere before and somewhere after them
InteriorRuns(t) ==
    {r \in (1..Len(t)) \X (1..Len(t)) :
        /\ r[2] - r[1] >= 2
        /\ \A k \in r[1]..r[2] : t[k] = NL
        /\ (r[1] = 1 \/ t[r[1] - 1] # NL)
        /\ (r[2] = Len(t) \/ t[r[2] + 1] # NL)
        /\ CountIn(t, 1, r[1] - 1, NonWs) > 0
        /\ CountIn(t, r[2] + 1, Len(t), NonWs) > 0}

\* C3: normalising twice gives the same string as normalising once:
\* clean_text(clean_text(s)) = clean_text(s) for every string s.
C3_Idempotent == tpc = "done" => r2 = r1

\* C4: the normalised string has no two adjacent spaces, and wherever the
\* input has a run of three or more newlines between two pieces of text, the
\* normalised string has exactly two newlines between those pieces.
C4_WhitespaceCollapse ==
    Normalized =>
        /\ NoDoubleSpace(r1)
        /\ \A r \in InteriorRuns(s) :
              NewlinesInGap(r1, CountIn(s, 1, r[1] - 1, NonWs)) = 2

\* C5: every line of the normalised string (split on newline) is free of
\* leading and trailing whitespace, and so is the normalised string as a whole.
C5_LinesTrimmed ==
    Normalized =>
        /\ Trimmed(r1)
        /\ \A k \in 1..Len(Split(r1)) : Trimmed(Split(r1)[k])

\* C5 witness: an input with an inner line that has whitespace on both sides
\* has been normalised into several lines.
C5_Witness ==
    /\ Normalized
    /\ Len(Split(r1)) >= 2
    /\ \E k \in 1..Len(Split(s)) :
          LET l == Split(s)[k] IN
          Len(l) >= 3 /\ l[1] \in Whitespace /\ l[Len(l)] \in Whitespace
                      /\ l # LStrip(l) /\ LStrip(l) # Strip(l)


\* ================================================ properties: the batch loop
PipelineStages == {"decode", "preprocess", "engine"}
WriteStages == {"mkdir", "write_txt", "write_md"}

\* documents (by index) that raised a failure at one of the stages
FailedIdx(stages) ==
    {failedAt[k].idx : k \in {n \in 1..Len(failedAt) : failedAt[n].stage \in stages}}

Marked(st) == {k \in 1..Len(outcome) : outcome[k].status = st}
HandedIdx == {handed[k].idx : k \in 1..Len(handed)}
HandedText(j) == handed[CHOOSE k \in 1..Len(handed) : handed[k].idx = j].text
Recognized ==
    {engineCalls[k].idx : k \in {n \in 1..Len(engineCalls) :
                                   engineCalls[n].result \in RawTexts}}

BatchDone == Batch /\ pc = "exit" /\ images # <<>>
InDocument ==
    pc \in {"open", "prep", "saveprep", "recog", "clean", "mkdir", "txt", "md",
            "except"}

AttemptedInOrder == Batch => attempts = SubSeq(images, 1, i)

\* C1: in a batch every discovered file is attempted exactly once, in
\* discovery order, whatever fails in a document's pipeline or result write,
\* and the run then reaches the final summary.
C1_NeverAborts ==
    /\ []AttemptedInOrder
    /\ (Batch /\ pc = "loop" /\ i = 0)
         ~> (pc = "exit" /\ attempts = images /\ notice = "summary")

\* C1 witness: a batch of two whose first document failed has attempted both
\* files and printed the summary.
C1_Witness ==
    /\ BatchDone /\ Len(images) = 2
    /\ 1 \in FailedIdx(PipelineStages \cup WriteStages)
    /\ attempts = images /\ notice = "summary"

\* C2: when a batch of N files ends, its outcome has N entries in discovery
\* order, an entry is marked failed exactly when that document failed, and if
\* exactly K documents failed decode/recognition (and no write failed) then K
\* entries are marked failed and N-K successful, whatever their positions.
C2_BatchCompleteness ==
    BatchDone =>
        /\ Len(outcome) = Len(images)
        /\ \A k \in 1..Len(outcome) : outcome[k].file = images[k]
        /\ Marked("error") = FailedIdx(PipelineStages \cup WriteStages)
        /\ FailedIdx(WriteStages) = {} =>
             /\ Cardinality(Marked("error")) = Cardinality(FailedIdx(PipelineStages))
             /\ Cardinality(Marked("ok")) =
                  Len(images) - Cardinality(FailedIdx(PipelineStages))

\* C2 witness: a batch of two ended, the first document failed to decode and
\* the second succeeded.
C2_Witness ==
    /\ BatchDone /\ Len(images) = 2
    /\ FailedIdx({"decode"}) = {1} /\ FailedIdx(WriteStages \cup {"engine"}) = {}
    /\ outcome[1].status = "error" /\ outcome[2].status = "ok"

\* C6: a batch on a directory without a matching file ends with an empty
\* result, the no-images advisory and exit status 0; no pipeline is started,
\* the engine and the writer are never called and nothing is written.
C6_EmptyDirectory ==
    (Batch /\ Matching(dirFiles) = {}) =>
        /\ attempts = <<>> /\ engineCalls = <<>> /\ handed = <<>>
        /\ outcome = <<>> /\ failedAt = <<>>
        /\ \A n \in OutNames : outFiles[n] = Absent
        /\ exitCode # 1
        /\ pc = "exit" => (notice = "no_images" /\ exitCode = 0 /\ images = <<>>)

\* C6 witness: a directory that holds only a non-matching file was scanned
\* and the run ended.
C6_Witness ==
    /\ Batch /\ pc = "exit" /\ dirFiles # {} /\ Matching(dirFiles) = {}
    /\ notice = "no_images"

\* C7: a failure to save the preprocessed image is not propagated: the run
\* does not end with it, recognition runs and the text is returned.
C7_PersistFailureNonFatal ==
    ("save_prep" \in {failedAt[k].stage : k \in 1..Len(failedAt)}) =>
        /\ exc # "save_prep"
        /\ exitCode # 1
        /\ pc = "exit" => (engineCalls # <<>> /\ handed # <<>>)

\* C8: in a batch every earlier document is settled before the next one's
\* pipeline begins: a recognised document was handed to the writer, a
\* document just marked successful has its .txt and .md on disk, and a write
\* failure marks that document alone as failed while the loop goes on to
\* the end of the list.
C8_PersistBeforeNext ==
    Batch =>
        /\ Len(outcome) = IF InDocument THEN i - 1 ELSE i
        /\ \A j \in 1..Len(outcome) :
              /\ j \in Recognized => j \in HandedIdx
              /\ outcome[j].status = "ok" => j \in HandedIdx
              /\ j \in FailedIdx(WriteStages) => outcome[j].status = "error"
              /\ outcome[j].status = "error" =>
                   j \in FailedIdx(PipelineStages \cup WriteStages)
        /\ (pc = "loop" /\ i >= 1 /\ outcome[i].status = "ok") =>
              /\ outFiles[TxtFile(images[i])] = HandedText(i)
              /\ outFiles[MdFile(images[i])] = MdContent(images[i], HandedText(i))
        /\ (pc = "exit" /\ images # <<>>) => Len(outcome) = Len(images)

\* C8 witness: the first document's .txt write failed, the second document
\* was then processed and marked successful.
C8_Witness ==
    /\ BatchDone /\ Len(images) = 2
    /\ FailedIdx({"write_txt"}) = {1}
    /\ outcome[1].status = "error" /\ outcome[2].status = "ok"

ExpectedInput(f) ==
    IF preprocess THEN preprocess_image(Decoded(f)) ELSE Decoded(f)

\* C9: in both modes the text handed to the writer for a document is
\* clean_text of the engine's result for that document, the engine having
\* read the preprocessed image exactly when preprocessing is on; a document
\* whose decode or recognition failed is never handed to the writer, and no
\* .txt holds a raw engine result.
C9_NeverRaw ==
    /\ \A k \in 1..Len(handed) :
          /\ handed[k].idx \notin FailedIdx(PipelineStages)
          /\ handed[k].file = attempts[handed[k].idx]
          /\ \E n \in 1..Len(engineCalls) :
                /\ engineCalls[n].idx = handed[k].idx
                /\ engineCalls[n].result \in RawTexts
                /\ handed[k].text = clean_text(engineCalls[n].result)
    /\ \A n \in 1..Len(engineCalls) :
          engineCalls[n].input = ExpectedInput(attempts[engineCalls[n].idx])
    /\ \A b \in Bases :
          outFiles[<<b, "txt">>] \in
              {Absent, <<>>} \cup {clean_text(raw) : raw \in RawTexts}

\* C9 witness: single-file mode without preprocessing has written a .txt
\* whose text differs from the engine's raw result.
C9_Witness ==
    /\ target = "file" /\ ~preprocess /\ pc = "exit" /\ exitCode = 0
    /\ outFiles[TxtFile(path)] = handed[1].text
    /\ handed[1].text # rawText

TxtOutputs == {b \in Bases : outFiles[<<b, "txt">>] # Absent}
StemsOf(K) == {Stem(images[k]) : k \in K}
ReachedTxt == Marked("ok") \cup FailedIdx({"write_txt", "write_md"})
GroupOrder ==
    \A j, k \in 1..Len(images) :
        j < k => ExtIndex(images[j].ext) <= ExtIndex(images[k].ext)

====
